---- MODULE Spec2Model ----
(***************************************************************************)
(* Cookie manager browser extension: the background service worker         *)
(* (background/service-worker.js, importScripts variant) together with     *)
(* utils/config-manager-sw.js and utils/cookie-manager-sw.js.              *)
(*                                                                         *)
(* Every asynchronous function is a task that runs one synchronous segment *)
(* per step; a step issues at most one call into chrome.storage.local or   *)
(* chrome.cookies, whose effect takes place in that step.  Tasks interleave *)
(* only between steps (single-threaded event loop).                        *)
(*                                                                         *)
(* Strings that the code inspects (cookie domains, domain patterns) are    *)
(* sequences of characters, so startsWith / endsWith / substring are       *)
(* computed as the code computes them.                                     *)
(*                                                                         *)
(* Consecutive reads of a task (storage reads, cookies.getAll) are taken   *)
(* as one step; every write (storage set, cookies.set, cookies.remove) is  *)
(* a step of its own.  chrome.cookies identifies a cookie by name, domain  *)
(* and path.  The fields trace, listed, removed, rmFailed, loaded,         *)
(* setFailed, quiet of a call and heard, at..., wrote, held, failed of a   *)
(* handler record what the call or handler did; no guard reads them.       *)
(***************************************************************************)
EXTENDS Naturals, Sequences, FiniteSets, TLC

\* ------------------------------------------------------------------ bounds
MaxSwitchCalls == 2   \* switchProfile messages the popup sends
MaxEvents      == 1   \* cookie changes made by web pages while switches run
MaxHandlers    == 2   \* cookie-change handlers that can be under way together
MaxRejects     == 1   \* collaborator calls (storage, cookies) that reject
MaxCfgCalls    == 2   \* ConfigManager calls (create, delete, switch) under way together
MaxLen         == 3   \* characters of a domain or pattern given to the matchers
MaxOps         == 4   \* page changes and store calls run one after another

\* ------------------------------------------------------------ string helpers
StartsWith(s, p) == Len(s) >= Len(p) /\ SubSeq(s, 1, Len(p)) = p
EndsWith(s, p)   == Len(s) >= Len(p) /\ SubSeq(s, Len(s) - Len(p) + 1, Len(s)) = p
Substring(s, n)  == SubSeq(s, n + 1, Len(s))
Dot  == <<".">>
Wild == <<"*", ".">>

\* cookie.domain.startsWith('.') ? cookie.domain.substring(1) : cookie.domain
NormalizeDomain(d) == IF StartsWith(d, Dot) THEN Substring(d, 1) ELSE d

isDomainMatch(cookieDomain, targetDomain) ==
  LET nc == NormalizeDomain(cookieDomain)
      nt == NormalizeDomain(targetDomain)
  IN  \/ nc = nt
      \/ EndsWith(nc, Dot \o nt)
      \/ /\ StartsWith(nt, Wild)
         /\ LET baseDomain == Substring(nt, 2)
            IN  nc = baseDomain \/ EndsWith(nc, Dot \o baseDomain)

isCookieInDomains(cookie, domains) ==
  \/ Len(domains) = 0
  \/ \E i \in 1..Len(domains) : isDomainMatch(cookie.domain, domains[i])

\* ------------------------------------------------------------ the universe
D_aw == <<"a", ".", "w">>       \* host-only cookie of a.w
D_dw == <<".", "w">>            \* domain cookie of .w
D_o  == <<"o">>                 \* host-only cookie of another site
P_ww == <<"*", ".", "w">>       \* the pattern *.w

\* The cookies a web page can hold, in the order chrome.cookies.getAll lists them.
CookieKeys ==
  << [name |-> "sid", domain |-> D_aw, path |-> "/"],
     [name |-> "sid", domain |-> D_dw, path |-> "/"],
     [name |-> "sid", domain |-> D_o,  path |-> "/"] >>
KeyIds == 1..Len(CookieKeys)
Values == 1..2                 \* cookie values; a jar entry of 0 means no such cookie

Null    == "null"
Missing == "P9"                 \* an id no profile has
NoProfile == [id |-> Null, domains |-> <<>>]
Targets == {"P1", "P2", Missing}

\* ---------------------------------------------------------------- state
VARIABLES
  profiles,            \* storage 'profiles': the profile list
  activeProfileId,     \* storage 'activeProfileId'
  pluginEnabled,       \* storage 'pluginEnabled': "absent", "true" or "false"
  cookieData,          \* storage 'cookieData': profile id -> buckets
  jar,                 \* the browser's live cookies: key id -> value, 0 when absent
  isSwitchingProfile,  \* the service worker's flag
  listening,           \* handleCookieChange is registered on cookies.onChanged
  setupPending,        \* a setupCookieInterceptor run is scheduled
  sw,                  \* the switchProfile calls
  hd,                  \* the handleCookieChange calls
  rejects,             \* collaborator calls that have rejected
  log,                 \* the store operations run one after another, latest last
  cfg,                 \* the ConfigManager calls of the popup and the service worker
  probe                \* one evaluation of the domain matchers

\* the variables only the store, configuration and matcher specifications change
aux == <<log, cfg, probe>>

vars == <<profiles, activeProfileId, pluginEnabled, cookieData, jar,
          isSwitchingProfile, listening, setupPending, sw, hd, rejects, aux>>

Calls    == 1..MaxSwitchCalls
Handlers == 1..MaxHandlers
EventHandlers == 1..MaxEvents
CfgCalls == 1..MaxCfgCalls

\* ----------------------------------------------------- collaborators (reads)
\* ConfigManager.getActiveProfile: the stored id looked up in the stored list.
getActiveProfile(profs, activeId) ==
  IF activeId = Null THEN NoProfile
  ELSE IF \E i \in 1..Len(profs) : profs[i].id = activeId
       THEN profs[CHOOSE i \in 1..Len(profs) :
                    /\ profs[i].id = activeId
                    /\ \A j \in 1..(i - 1) : profs[j].id # activeId]
       ELSE NoProfile

\* a plugin that cannot be disabled
AlwaysEnabled(stored) == TRUE

\* ConfigManager.isPluginEnabled: data[pluginEnabled] !== false
isPluginEnabled(stored) == stored # "false"

\* The record saved for a live cookie: the attributes the code copies.
CookieRecord(k, v) ==
  [name |-> CookieKeys[k].name, value |-> v,
   domain |-> CookieKeys[k].domain, path |-> CookieKeys[k].path]

RECURSIVE ListFrom(_, _)
\* the live cookies with key id >= k, in listing order
ListFrom(j, k) ==
  IF k > Len(CookieKeys) THEN <<>>
  ELSE (IF j[k] # 0 THEN <<CookieRecord(k, j[k])>> ELSE <<>>) \o ListFrom(j, k + 1)

\* chrome.cookies.getAll({})
GetAllCookies(j) == ListFrom(j, 1)

\* chrome.cookies.getAll({ domain }): the cookies of that domain and its subdomains
GetCookiesOfDomain(j, domain) ==
  LET nf == NormalizeDomain(domain)
      Of(c) == LET nc == NormalizeDomain(c.domain)
               IN  nc = nf \/ EndsWith(nc, Dot \o nf)
  IN  SelectSeq(GetAllCookies(j), Of)

KeyOf(c) ==
  CHOOSE k \in KeyIds :
    /\ CookieKeys[k].name = c.name
    /\ CookieKeys[k].domain = c.domain
    /\ CookieKeys[k].path = c.path

\* The url the code synthesizes for a cookie: http(s)://{domain}{path}
CookieUrl(c) == [host |-> c.domain, path |-> c.path]

\* chrome.cookies.remove({url, name}): the cookie of that host, path and name goes
RemoveCookie(j, url, name) ==
  [k \in KeyIds |->
     IF /\ CookieKeys[k].name = name
        /\ CookieKeys[k].domain = url.host
        /\ CookieKeys[k].path = url.path
     THEN 0 ELSE j[k]]

\* chrome.cookies.set({url, name, value, path, ...}): the cookie of the url's host
SetCookie(j, url, name, value, path) ==
  [k \in KeyIds |->
     IF /\ CookieKeys[k].name = name
        /\ CookieKeys[k].domain = url.host
        /\ CookieKeys[k].path = path
     THEN value ELSE j[k]]

\* ------------------------------------------------ the snapshot store (pure)
\* A profile's snapshot is the list of its buckets, in the key order of the
\* stored object (insertion order); a bucket is [key, cookies].
HasBucket(buckets, key) == \E i \in 1..Len(buckets) : buckets[i].key = key
BucketIndex(buckets, key) == CHOOSE i \in 1..Len(buckets) : buckets[i].key = key

\* cookieData[profileId] || {}
ProfileBuckets(data, pid) == IF pid \in DOMAIN data THEN data[pid] ELSE <<>>

\* data with  data[pid] = buckets
WithProfile(data, pid, buckets) ==
  [p \in (DOMAIN data) \cup {pid} |-> IF p = pid THEN buckets ELSE data[p]]

\* a per-domain save that adds to the bucket instead of replacing it
MergeBucket(buckets, key, cookies) ==
  IF HasBucket(buckets, key)
  THEN [buckets EXCEPT ![BucketIndex(buckets, key)].cookies = @ \o cookies]
  ELSE Append(buckets, [key |-> key, cookies |-> cookies])

\* buckets[key] = cookies   (an existing key keeps its place)
SetBucket(buckets, key, cookies) ==
  IF HasBucket(buckets, key)
  THEN [buckets EXCEPT ![BucketIndex(buckets, key)].cookies = cookies]
  ELSE Append(buckets, [key |-> key, cookies |-> cookies])

\* if (!buckets[key]) buckets[key] = [];  buckets[key].push(cookie)
PushRecord(buckets, key, cookie) ==
  IF HasBucket(buckets, key)
  THEN [buckets EXCEPT ![BucketIndex(buckets, key)].cookies = Append(@, cookie)]
  ELSE Append(buckets, [key |-> key, cookies |-> <<cookie>>])

RECURSIVE PushByDomain(_, _)
\* every cookie of the list pushed into the bucket of its normalized domain
PushByDomain(buckets, cookies) ==
  IF cookies = <<>> THEN buckets
  ELSE PushByDomain(
         PushRecord(buckets, NormalizeDomain(Head(cookies).domain), Head(cookies)),
         Tail(cookies))

\* findIndex(c => c.name === cookie.name && c.path === cookie.path), 0 for -1
ExistingIndex(recs, cookie) ==
  IF \E i \in 1..Len(recs) : recs[i].name = cookie.name /\ recs[i].path = cookie.path
  THEN CHOOSE i \in 1..Len(recs) :
         /\ recs[i].name = cookie.name /\ recs[i].path = cookie.path
         /\ \A j \in 1..(i - 1) :
              ~(recs[j].name = cookie.name /\ recs[j].path = cookie.path)
  ELSE 0

\* the update saveCookieToActiveProfile makes to the copy of cookieData it read
UpsertCookie(data, pid, cookie) ==
  LET key     == NormalizeDomain(cookie.domain)
      buckets == ProfileBuckets(data, pid)
      recs    == IF HasBucket(buckets, key)
                 THEN buckets[BucketIndex(buckets, key)].cookies ELSE <<>>
      at      == ExistingIndex(recs, cookie)
      recs2   == IF at > 0 THEN [recs EXCEPT ![at] = cookie] ELSE Append(recs, cookie)
  IN  WithProfile(data, pid, SetBucket(buckets, key, recs2))

\* the wildcard filter of saveCurrentProfileCookies for the pattern *.base
MatchedCookies(cookies, pattern) ==
  LET baseDomain == Substring(pattern, 2)
      Hit(c) == LET cd == NormalizeDomain(c.domain)
                IN  cd = baseDomain \/ EndsWith(cd, Dot \o baseDomain)
  IN  SelectSeq(cookies, Hit)

\* snapshot[pid] holds the cookie's name, path and value in the bucket of its domain
Holds(data, pid, cookie) ==
  LET buckets == ProfileBuckets(data, pid)
      key     == NormalizeDomain(cookie.domain)
  IN  /\ HasBucket(buckets, key)
      /\ \E i \in 1..Len(buckets[BucketIndex(buckets, key)].cookies) :
           LET r == buckets[BucketIndex(buckets, key)].cookies[i]
           IN  r.name = cookie.name /\ r.path = cookie.path /\ r.value = cookie.value

RECURSIVE AllRecords(_)
\* the records loadCookies visits: every bucket in key order, every record in order
AllRecords(buckets) ==
  IF buckets = <<>> THEN <<>> ELSE Head(buckets).cookies \o AllRecords(Tail(buckets))

\* ------------------------------------------------------------- initial state
IdleCall ==
  [pc |-> "idle", target |-> Null, clear |-> FALSE, todo |-> <<>>,
   prof |-> NoProfile, idx |-> 0, cookies |-> <<>>, data |-> <<>>,
   exclude |-> <<>>, result |-> "none", response |-> "none", flagAtReturn |-> FALSE,
   trace |-> <<>>, listed |-> <<>>, removed |-> {}, rmFailed |-> {},
   loaded |-> <<>>, setFailed |-> FALSE, quiet |-> TRUE]

IdleHandler ==
  [pc |-> "idle", cookie |-> CookieRecord(1, 1), removed |-> FALSE,
   prof |-> NoProfile, data |-> <<>>,
   heard |-> FALSE, atSwitching |-> FALSE, atEnabled |-> FALSE, atActive |-> Null,
   wrote |-> FALSE, held |-> FALSE, failed |-> FALSE]

\* no ConfigManager call of the popup is under way
IdleCfg == [pc |-> "idle", op |-> "none", id |-> Null, profs |-> <<>>]

\* no matcher evaluation
NoProbe == [pc |-> "none"]

\* the state of the variables a specification does not use
AuxIdle ==
  /\ log = <<>>
  /\ cfg = [n \in CfgCalls |-> IdleCfg]
  /\ probe = NoProbe

\* Work watches *.w and a.w, Personal has no configured domain (every domain).
InitProfiles ==
  << [id |-> "P1", domains |-> <<P_ww, D_aw>>],
     [id |-> "P2", domains |-> <<>>] >>

\* The service worker has started: init() has run setupCookieInterceptor once.
Init ==
  /\ profiles = InitProfiles
  /\ activeProfileId \in {Null, "P1"}
  /\ pluginEnabled \in {"absent", "false"}
  /\ cookieData = <<>>
  /\ jar = [k \in KeyIds |-> 1]
  /\ isSwitchingProfile = FALSE
  /\ listening = (isPluginEnabled(pluginEnabled)
                    /\ getActiveProfile(profiles, activeProfileId) # NoProfile)
  /\ setupPending = FALSE
  /\ sw = [t \in Calls |-> IdleCall]
  /\ hd = [h \in Handlers |-> IdleHandler]
  /\ rejects = 0
  /\ AuxIdle

\* The store was written: each delivered change whose record the snapshot of the
\* profile active at delivery now holds is marked as having been held.
Witnessed(hs, data) ==
  [h \in Handlers |->
     IF hs[h].heard /\ Holds(data, hs[h].atActive, hs[h].cookie)
     THEN [hs[h] EXCEPT !.held = TRUE] ELSE hs[h]]

\* --------------------------------------------------------- switchProfile
\* a coordinator without the guard
SwitchAlwaysEnters(flag) == FALSE

\* if (isSwitchingProfile) { warn; return; }
SwitchRejectsReentry(flag) == flag

\* a coordinator that clears the jar before it saves the outgoing profile
ClearBeforeSave(hasCurrent, clear) ==
  (IF clear THEN <<"clear">> ELSE <<>>) \o (IF hasCurrent THEN <<"save">> ELSE <<>>)
    \o <<"pointer", "load">>

\* The steps of one call, in the order the try block runs them.
SwitchSteps(hasCurrent, clear) ==
  (IF hasCurrent THEN <<"save">> ELSE <<>>) \o <<"pointer">>
    \o (IF clear THEN <<"clear">> ELSE <<>>) \o <<"load">>

PhaseEntry(ph) ==
  CASE ph = "save"    -> "saveEntry"
    [] ph = "pointer" -> "cfgRead"
    [] ph = "clear"   -> "clearList"
    [] ph = "load"    -> "loadRead"

\* the next step of the try block, or its end
Advance(c) ==
  IF c.todo = <<>> THEN [c EXCEPT !.pc = "finish"]
  ELSE [c EXCEPT !.pc = PhaseEntry(Head(c.todo)), !.todo = Tail(c.todo)]

Note(trace, e) ==
  IF trace # <<>> /\ trace[Len(trace)] = e THEN trace ELSE Append(trace, e)

\* a coordinator that clears the flag at the end of the try block, not in finally
FlagKeptOnThrow(threw) == threw

\* finally { isSwitchingProfile = false }
FlagAfterSwitch(threw) == FALSE

\* The call settles: locals are dropped, the message handler answers.
Settled(c, result, flag) ==
  [c EXCEPT !.pc = "done", !.result = result, !.flagAtReturn = flag,
            !.response = IF result \in {"error", "notfound"} THEN "fail" ELSE "ok",
            !.todo = <<>>, !.prof = NoProfile, !.idx = 0, !.cookies = <<>>,
            !.data = <<>>]

\* Another actor changed the jar: the calls that have begun restoring are no longer
\* the only writer of the jar since their restore began.
Disturbed(s, actor) ==
  [t \in Calls |->
     IF t # actor /\ s[t].loaded # <<>>
     THEN [s[t] EXCEPT !.quiet = FALSE] ELSE s[t]]

SwitchCall(t, target, clear) ==
  /\ sw[t].pc = "idle"
  /\ IF t = 1 THEN TRUE ELSE sw[t - 1].pc # "idle"
  /\ IF SwitchRejectsReentry(isSwitchingProfile)
     THEN /\ sw' = [sw EXCEPT ![t] =
                      Settled([sw[t] EXCEPT !.target = target, !.clear = clear],
                              "ignored", isSwitchingProfile)]
          /\ UNCHANGED isSwitchingProfile
     ELSE /\ isSwitchingProfile' = TRUE
          /\ sw' = [sw EXCEPT ![t] = [sw[t] EXCEPT !.pc = "getActive",
                                        !.target = target, !.clear = clear]]
  /\ UNCHANGED <<profiles, activeProfileId, pluginEnabled, cookieData, jar,
                 listening, setupPending, hd, rejects, aux>>

\* const currentProfile = await getActiveProfile()
SwGetActive(t) ==
  /\ sw[t].pc = "getActive"
  /\ LET cur == getActiveProfile(profiles, activeProfileId)
     IN  sw' = [sw EXCEPT ![t] =
                  Advance([sw[t] EXCEPT !.todo = SwitchSteps(cur # NoProfile, sw[t].clear)])]
  /\ UNCHANGED <<profiles, activeProfileId, pluginEnabled, cookieData, jar,
                 isSwitchingProfile, listening, setupPending, hd, rejects, aux>>

\* ---- step 1: CookieManager.saveCurrentProfileCookies
IsWildcard(domain) == StartsWith(domain, Wild)

\* the cookies one pass of the save lists: all of them (no configured domain, idx 0),
\* those of *.base, or those chrome filters for a plain domain
CookiesToSave(j, prof, idx) ==
  IF idx = 0 THEN GetAllCookies(j)
  ELSE IF IsWildcard(prof.domains[idx])
       THEN MatchedCookies(GetAllCookies(j), prof.domains[idx])
       ELSE GetCookiesOfDomain(j, prof.domains[idx])

\* what one pass of the save stores, from the copy of cookieData it read
SavedData(data, prof, idx, cookies) ==
  IF idx = 0 THEN WithProfile(data, prof.id, PushByDomain(<<>>, cookies))
  ELSE IF IsWildcard(prof.domains[idx])
       THEN WithProfile(data, prof.id,
                        PushByDomain(ProfileBuckets(data, prof.id), cookies))
       ELSE WithProfile(data, prof.id,
                        SetBucket(ProfileBuckets(data, prof.id), prof.domains[idx], cookies))

\* after one pass: the next configured domain, or the save returns
SaveContinue(c) ==
  IF c.idx = 0 \/ c.idx = Len(c.prof.domains)
  THEN Advance([c EXCEPT !.trace = Note(@, "saveEnd"), !.prof = NoProfile,
                         !.idx = 0, !.cookies = <<>>, !.data = <<>>])
  ELSE [c EXCEPT !.pc = "saveRead", !.idx = @ + 1, !.cookies = <<>>, !.data = <<>>]

\* a pass begins: await chrome.cookies.getAll(...), then await getCookieData()
PassRead(c, prof, idx) ==
  [c EXCEPT !.pc = "saveWrite", !.prof = prof, !.idx = idx,
            !.cookies = CookiesToSave(jar, prof, idx), !.data = cookieData]

\* const activeProfile = await getActiveProfile(); if (!activeProfile) return;
\* then the first pass reads
SwSaveEntry(t) ==
  /\ sw[t].pc = "saveEntry"
  /\ LET prof == getActiveProfile(profiles, activeProfileId)
         c    == [sw[t] EXCEPT !.trace = Note(@, "saveBegin")]
     IN  sw' = [sw EXCEPT ![t] =
                  IF prof = NoProfile
                  THEN Advance([c EXCEPT !.trace = Note(@, "saveEnd")])
                  ELSE PassRead(c, prof, IF Len(prof.domains) = 0 THEN 0 ELSE 1)]
  /\ UNCHANGED <<profiles, activeProfileId, pluginEnabled, cookieData, jar,
                 isSwitchingProfile, listening, setupPending, hd, rejects, aux>>

\* the pass of the next configured domain reads
SwSaveRead(t) ==
  /\ sw[t].pc = "saveRead"
  /\ sw' = [sw EXCEPT ![t] = PassRead(sw[t], sw[t].prof, sw[t].idx)]
  /\ UNCHANGED <<profiles, activeProfileId, pluginEnabled, cookieData, jar,
                 isSwitchingProfile, listening, setupPending, hd, rejects, aux>>

\* await saveCookieData(cookieData)
SwSaveWrite(t) ==
  /\ sw[t].pc = "saveWrite"
  /\ cookieData' = SavedData(sw[t].data, sw[t].prof, sw[t].idx, sw[t].cookies)
  /\ sw' = [sw EXCEPT ![t] = SaveContinue(sw[t])]
  /\ hd' = Witnessed(hd, cookieData')
  /\ UNCHANGED <<profiles, activeProfileId, pluginEnabled, jar,
                 isSwitchingProfile, listening, setupPending, rejects, aux>>

\* ---- step 2: ConfigManager.switchProfile
\* a pointer update that does not look the id up
AnyIdExists(profs, id) == TRUE

\* profiles.find(p => p.id === profileId)
ProfileExists(profs, id) == \E i \in 1..Len(profs) : profs[i].id = id

\* const profiles = await getProfiles(); if (!profile) throw new Error('配置不存在')
SwCfgRead(t) ==
  /\ sw[t].pc = "cfgRead"
  /\ IF ProfileExists(profiles, sw[t].target)
     THEN /\ sw' = [sw EXCEPT ![t] = [sw[t] EXCEPT !.pc = "cfgWrite"]]
          /\ UNCHANGED isSwitchingProfile
     ELSE /\ isSwitchingProfile' = FlagAfterSwitch(TRUE)
          /\ sw' = [sw EXCEPT ![t] = Settled(sw[t], "notfound", FlagAfterSwitch(TRUE))]
  /\ UNCHANGED <<profiles, activeProfileId, pluginEnabled, cookieData, jar,
                 listening, setupPending, hd, rejects, aux>>

\* await setStorage({ activeProfileId: profileId }); storage.onChanged then
\* schedules setupCookieInterceptor
SwCfgWrite(t) ==
  /\ sw[t].pc = "cfgWrite"
  /\ activeProfileId' = sw[t].target
  /\ setupPending' = (setupPending \/ activeProfileId # sw[t].target)
  /\ sw' = [sw EXCEPT ![t] = Advance([sw[t] EXCEPT !.trace = Note(@, "pointer")])]
  /\ UNCHANGED <<profiles, pluginEnabled, cookieData, jar,
                 isSwitchingProfile, listening, hd, rejects, aux>>

\* ---- step 3: CookieManager.clearAllCookies(excludeDomains)
\* a clear that skips nothing
NothingExcluded(cookie, excludeDomains) == FALSE

\* a clear that skips every cookie
EverythingExcluded(cookie, excludeDomains) == TRUE

\* excludeDomains.some(domain => isDomainMatch(cookie.domain, domain))
IsExcluded(cookie, excludeDomains) ==
  \E i \in 1..Len(excludeDomains) : isDomainMatch(cookie.domain, excludeDomains[i])

RECURSIVE SkipExcluded(_, _)
\* the loop `continue`s over the cookies of excluded domains
SkipExcluded(cookies, excludeDomains) ==
  IF cookies # <<>> /\ IsExcluded(Head(cookies), excludeDomains)
  THEN SkipExcluded(Tail(cookies), excludeDomains) ELSE cookies

\* the loop goes on with the cookies left, or clearAllCookies returns
ClearContinue(c, rest) ==
  IF rest = <<>>
  THEN Advance([c EXCEPT !.trace = Note(@, "clearEnd"), !.cookies = <<>>])
  ELSE [c EXCEPT !.pc = "clearStep", !.cookies = rest]

\* const newProfile = await getActiveProfile(); excludeDomains = newProfile?.domains || []
\* const allCookies = await chrome.cookies.getAll({})
SwClearList(t) ==
  /\ sw[t].pc = "clearList"
  /\ LET exclude == getActiveProfile(profiles, activeProfileId).domains
         all     == GetAllCookies(jar)
     IN  sw' = [sw EXCEPT ![t] =
                  ClearContinue([sw[t] EXCEPT !.exclude = exclude, !.listed = all,
                                              !.trace = Note(@, "clearBegin")],
                                SkipExcluded(all, exclude))]
  /\ UNCHANGED <<profiles, activeProfileId, pluginEnabled, cookieData, jar,
                 isSwitchingProfile, listening, setupPending, hd, rejects, aux>>

\* the loop body: await chrome.cookies.remove({url, name}) for the next cookie that
\* is not excluded
SwClearStep(t) ==
  /\ sw[t].pc = "clearStep"
  /\ LET c == Head(sw[t].cookies)
     IN  /\ jar' = RemoveCookie(jar, CookieUrl(c), c.name)
         /\ sw' = [Disturbed(sw, t) EXCEPT ![t] =
                     ClearContinue([sw[t] EXCEPT !.removed = @ \cup {KeyOf(c)},
                                                 !.trace = Note(@, "rm")],
                                   SkipExcluded(Tail(sw[t].cookies), sw[t].exclude))]
  /\ UNCHANGED <<profiles, activeProfileId, pluginEnabled, cookieData,
                 isSwitchingProfile, listening, setupPending, hd, rejects, aux>>

\* ---- step 4: CookieManager.loadCookies(profileId)
\* the loop goes on with the records left, or loadCookies returns
LoadContinue(c, rest) ==
  IF rest = <<>>
  THEN Advance([c EXCEPT !.trace = Note(@, "loadEnd"), !.cookies = <<>>])
  ELSE [c EXCEPT !.pc = "loadStep", !.cookies = rest]

\* const cookieData = await getCookieData(); profileCookies = cookieData[profileId]
SwLoadRead(t) ==
  /\ sw[t].pc = "loadRead"
  /\ LET recs == AllRecords(ProfileBuckets(cookieData, sw[t].target))
     IN  sw' = [sw EXCEPT ![t] =
                  LoadContinue([sw[t] EXCEPT !.loaded = recs, !.quiet = TRUE,
                                             !.trace = Note(@, "loadBegin")], recs)]
  /\ UNCHANGED <<profiles, activeProfileId, pluginEnabled, cookieData, jar,
                 isSwitchingProfile, listening, setupPending, hd, rejects, aux>>

\* the loop body: await chrome.cookies.set(cookieDetails) for the next record
SwLoadStep(t) ==
  /\ sw[t].pc = "loadStep"
  /\ LET c == Head(sw[t].cookies)
     IN  /\ jar' = SetCookie(jar, CookieUrl(c), c.name, c.value, c.path)
         /\ sw' = [Disturbed(sw, t) EXCEPT ![t] =
                     LoadContinue([sw[t] EXCEPT !.trace = Note(@, "set")],
                                  Tail(sw[t].cookies))]
  /\ UNCHANGED <<profiles, activeProfileId, pluginEnabled, cookieData,
                 isSwitchingProfile, listening, setupPending, hd, rejects, aux>>

\* the try block ends: finally clears the flag and the call resolves
SwFinish(t) ==
  /\ sw[t].pc = "finish"
  /\ isSwitchingProfile' = FlagAfterSwitch(FALSE)
  /\ sw' = [sw EXCEPT ![t] = Settled(sw[t], "ok", FlagAfterSwitch(FALSE))]
  /\ UNCHANGED <<profiles, activeProfileId, pluginEnabled, cookieData, jar,
                 listening, setupPending, hd, rejects, aux>>

\* ---- a collaborator call of the switch rejects
InWildcardPass(c) ==
  /\ c.pc \in {"saveRead", "saveWrite"}
  /\ c.idx > 0
  /\ IsWildcard(c.prof.domains[c.idx])

\* catch blocks of which the one around chrome.cookies.set rethrows
SetFailureThrown(t) ==
  /\ rejects < MaxRejects
  /\ \/ /\ InWildcardPass(sw[t])
        /\ sw' = [sw EXCEPT ![t] = SaveContinue(sw[t])]
     \/ /\ sw[t].pc = "saveEntry"
        /\ LET prof == getActiveProfile(profiles, activeProfileId)
           IN  /\ prof # NoProfile
               /\ Len(prof.domains) > 0
               /\ IsWildcard(prof.domains[1])
               /\ sw' = [sw EXCEPT ![t] =
                           SaveContinue([sw[t] EXCEPT !.prof = prof, !.idx = 1,
                                                      !.trace = Note(@, "saveBegin")])]
     \/ /\ sw[t].pc = "clearStep"
        /\ sw' = [sw EXCEPT ![t] =
                    ClearContinue([sw[t] EXCEPT
                                     !.rmFailed = @ \cup {KeyOf(Head(sw[t].cookies))},
                                     !.trace = Note(@, "rm")],
                                  SkipExcluded(Tail(sw[t].cookies), sw[t].exclude))]
     \/ /\ sw[t].pc = "loadStep"
        /\ sw' = [sw EXCEPT ![t] =
                    Settled([sw[t] EXCEPT !.setFailed = TRUE], "error", TRUE)]
  /\ rejects' = rejects + 1
  /\ UNCHANGED <<profiles, activeProfileId, pluginEnabled, cookieData, jar,
                 isSwitchingProfile, listening, setupPending, hd, aux>>

\* the catch blocks that swallow: a wildcard pass of the save, one remove, one set
SwRejectCaught(t) ==
  /\ rejects < MaxRejects
  /\ \/ /\ InWildcardPass(sw[t])
        /\ sw' = [sw EXCEPT ![t] = SaveContinue(sw[t])]
     \/ /\ sw[t].pc = "saveEntry"
        /\ LET prof == getActiveProfile(profiles, activeProfileId)
           IN  /\ prof # NoProfile
               /\ Len(prof.domains) > 0
               /\ IsWildcard(prof.domains[1])
               /\ sw' = [sw EXCEPT ![t] =
                           SaveContinue([sw[t] EXCEPT !.prof = prof, !.idx = 1,
                                                      !.trace = Note(@, "saveBegin")])]
     \/ /\ sw[t].pc = "clearStep"
        /\ sw' = [sw EXCEPT ![t] =
                    ClearContinue([sw[t] EXCEPT
                                     !.rmFailed = @ \cup {KeyOf(Head(sw[t].cookies))},
                                     !.trace = Note(@, "rm")],
                                  SkipExcluded(Tail(sw[t].cookies), sw[t].exclude))]
     \/ /\ sw[t].pc = "loadStep"
        /\ sw' = [sw EXCEPT ![t] =
                    LoadContinue([sw[t] EXCEPT !.setFailed = TRUE,
                                               !.trace = Note(@, "set")],
                                 Tail(sw[t].cookies))]
  /\ rejects' = rejects + 1
  /\ UNCHANGED <<profiles, activeProfileId, pluginEnabled, cookieData, jar,
                 isSwitchingProfile, listening, setupPending, hd, aux>>

\* every other rejection: catch logs and rethrows, finally clears the flag
SwRejectThrown(t) ==
  /\ rejects < MaxRejects
  /\ sw[t].pc \in {"getActive", "saveEntry", "saveRead", "saveWrite",
                   "cfgRead", "cfgWrite", "clearList", "loadRead"}
  /\ ~InWildcardPass(sw[t])
  /\ isSwitchingProfile' = FlagAfterSwitch(TRUE)
  /\ sw' = [sw EXCEPT ![t] = Settled(sw[t], "error", FlagAfterSwitch(TRUE))]
  /\ rejects' = rejects + 1
  /\ UNCHANGED <<profiles, activeProfileId, pluginEnabled, cookieData, jar,
                 listening, setupPending, hd, aux>>

\* ------------------------------------------------------ handleCookieChange
\* a handler without the switching check
HandlerNeverDefers(flag) == FALSE

\* if (isSwitchingProfile) return;
HandlerIgnoresWhileSwitching(flag) == flag

\* a handler without the removed check
HandlerRecordsRemoval(removed) == FALSE

\* if (changeInfo.removed) return;
HandlerIgnoresRemoval(removed) == removed

HandlerDone(r) == [r EXCEPT !.pc = "done", !.prof = NoProfile, !.data = <<>>]

FreeHandler(h) == hd[h].pc = "idle" /\ (IF h = 1 THEN TRUE ELSE hd[h - 1].pc # "idle")

\* cookies.onChanged fires: the listener, when registered, runs up to its first await
Delivered(h, cookie, removed) ==
  LET r == [hd[h] EXCEPT !.cookie = cookie, !.removed = removed]
      g == [r EXCEPT !.heard = TRUE,
                     !.atSwitching = isSwitchingProfile,
                     !.atEnabled = isPluginEnabled(pluginEnabled),
                     !.atActive = getActiveProfile(profiles, activeProfileId).id,
                     !.held = Holds(cookieData,
                                    getActiveProfile(profiles, activeProfileId).id,
                                    cookie)]
  IN  IF ~listening THEN [hd EXCEPT ![h] = HandlerDone(r)]
      ELSE IF HandlerIgnoresWhileSwitching(isSwitchingProfile)
           THEN [hd EXCEPT ![h] = HandlerDone(g)]
           ELSE [hd EXCEPT ![h] = [g EXCEPT !.pc = "hRead"]]

\* a web page sets a cookie
CookieSet(h, k, v) ==
  /\ FreeHandler(h)
  /\ jar[k] # v
  /\ jar' = [jar EXCEPT ![k] = v]
  /\ hd' = Delivered(h, CookieRecord(k, v), FALSE)
  /\ sw' = Disturbed(sw, 0)
  /\ UNCHANGED <<profiles, activeProfileId, pluginEnabled, cookieData,
                 isSwitchingProfile, listening, setupPending, rejects, aux>>

\* a web page deletes a cookie, or it expires
CookieRemoved(h, k) ==
  /\ FreeHandler(h)
  /\ jar[k] # 0
  /\ jar' = [jar EXCEPT ![k] = 0]
  /\ hd' = Delivered(h, CookieRecord(k, jar[k]), TRUE)
  /\ sw' = Disturbed(sw, 0)
  /\ UNCHANGED <<profiles, activeProfileId, pluginEnabled, cookieData,
                 isSwitchingProfile, listening, setupPending, rejects, aux>>

\* the handler's reads, up to saveCookieToActiveProfile's getCookieData(), taken as
\* one step (storage reads only):
\*   const enabled = await isPluginEnabled();          if (!enabled) return;
\*   const activeProfile = await getActiveProfile();   if (!activeProfile) return;
\*   if (changeInfo.removed) return;
\*   saveCookieToActiveProfile: getActiveProfile, isCookieInDomains, getCookieData
HdRead(h) ==
  /\ hd[h].pc = "hRead"
  /\ LET prof == getActiveProfile(profiles, activeProfileId)
     IN  hd' = [hd EXCEPT ![h] =
                  IF \/ ~isPluginEnabled(pluginEnabled)
                     \/ prof = NoProfile
                     \/ HandlerIgnoresRemoval(hd[h].removed)
                     \/ ~isCookieInDomains(hd[h].cookie, prof.domains)
                  THEN HandlerDone(hd[h])
                  ELSE [hd[h] EXCEPT !.pc = "hWrite", !.prof = prof,
                                     !.data = cookieData]]
  /\ UNCHANGED <<profiles, activeProfileId, pluginEnabled, cookieData, jar,
                 isSwitchingProfile, listening, setupPending, sw, rejects, aux>>

\* await saveCookieData(cookieData)
HdWrite(h) ==
  /\ hd[h].pc = "hWrite"
  /\ cookieData' = UpsertCookie(hd[h].data, hd[h].prof.id, hd[h].cookie)
  /\ hd' = Witnessed([hd EXCEPT ![h] = HandlerDone([hd[h] EXCEPT !.wrote = TRUE])],
                     cookieData')
  /\ UNCHANGED <<profiles, activeProfileId, pluginEnabled, jar,
                 isSwitchingProfile, listening, setupPending, sw, rejects, aux>>

\* a storage call of the handler rejects: the error is logged (or left unhandled)
HdReject(h) ==
  /\ rejects < MaxRejects
  /\ hd[h].pc \in {"hRead", "hWrite"}
  /\ hd' = [hd EXCEPT ![h] = HandlerDone([hd[h] EXCEPT !.failed = TRUE])]
  /\ rejects' = rejects + 1
  /\ UNCHANGED <<profiles, activeProfileId, pluginEnabled, cookieData, jar,
                 isSwitchingProfile, listening, setupPending, sw, aux>>

\* ------------------------------------------------ interceptor and plugin switch
\* setupCookieInterceptor: addListener when the plugin is enabled and a profile active
SetupCookieInterceptor ==
  /\ setupPending
  /\ setupPending' = FALSE
  /\ listening' = \/ listening
                  \/ /\ isPluginEnabled(pluginEnabled)
                     /\ getActiveProfile(profiles, activeProfileId) # NoProfile
  /\ UNCHANGED <<profiles, activeProfileId, pluginEnabled, cookieData, jar,
                 isSwitchingProfile, sw, hd, rejects, aux>>

\* popup handlePluginToggle: setPluginEnabled(toggle.checked); the checkbox shows
\* isPluginEnabled(), a click flips it; storage.onChanged then schedules
\* setupCookieInterceptor
TogglePlugin ==
  /\ pluginEnabled' = (IF isPluginEnabled(pluginEnabled) THEN "false" ELSE "true")
  /\ setupPending' = TRUE
  /\ UNCHANGED <<profiles, activeProfileId, cookieData, jar,
                 isSwitchingProfile, listening, sw, hd, rejects, aux>>

\* ------------------------------------------------------------ specification
SwStep(t) ==
  \/ SwGetActive(t) \/ SwSaveEntry(t) \/ SwSaveRead(t) \/ SwSaveWrite(t)
  \/ SwCfgRead(t) \/ SwCfgWrite(t) \/ SwClearList(t) \/ SwClearStep(t)
  \/ SwLoadRead(t) \/ SwLoadStep(t) \/ SwFinish(t)

HdStep(h) == HdRead(h) \/ HdWrite(h)

Next ==
  \/ \E t \in Calls, target \in Targets, clear \in BOOLEAN : SwitchCall(t, target, clear)
  \/ \E t \in Calls : SwStep(t)
  \/ \E t \in Calls : SwRejectCaught(t)
  \/ \E t \in Calls : SwRejectThrown(t)
  \/ \E h \in EventHandlers, k \in KeyIds, v \in Values : CookieSet(h, k, v)
  \/ \E h \in EventHandlers, k \in KeyIds : CookieRemoved(h, k)
  \/ \E h \in EventHandlers : HdStep(h)
  \/ \E h \in EventHandlers : HdReject(h)
  \/ SetupCookieInterceptor

Spec == Init /\ [][Next]_vars

\* The coordinator alone: the switchProfile calls, their rejections and the
\* interceptor set-up the pointer update triggers.  Cookie changes made by web pages
\* and their handlers write neither the flag nor a call's position.
SwitchNext ==
  \/ \E t \in Calls, target \in Targets, clear \in BOOLEAN : SwitchCall(t, target, clear)
  \/ \E t \in Calls : SwStep(t)
  \/ \E t \in Calls : SwRejectCaught(t)
  \/ \E t \in Calls : SwRejectThrown(t)
  \/ SetupCookieInterceptor

\* Every collaborator call returns or rejects, and the event loop then runs the
\* continuation that awaited it.
SwitchFairSpec ==
  /\ Init
  /\ [][SwitchNext]_vars
  /\ \A t \in Calls : WF_vars(SwStep(t))

\* ------------------------------------------- the store functions, run to the end
\* CookieManager.saveCookies(profileId, domain), importScripts and module variant
saveCookies(data, j, pid, domain) ==
  WithProfile(data, pid,
              SetBucket(ProfileBuckets(data, pid), domain, GetCookiesOfDomain(j, domain)))

RECURSIVE SavePasses(_, _, _, _)
\* for (const domain of activeProfile.domains): the passes from idx on
SavePasses(data, j, prof, idx) ==
  IF idx > Len(prof.domains) THEN data
  ELSE SavePasses(SavedData(data, prof, idx, CookiesToSave(j, prof, idx)), j, prof, idx + 1)

\* CookieManager.saveCurrentProfileCookies(), importScripts variant
saveCurrentProfileCookies(data, j, prof) ==
  IF prof = NoProfile THEN data
  ELSE IF Len(prof.domains) = 0
       THEN SavedData(data, prof, 0, CookiesToSave(j, prof, 0))
       ELSE SavePasses(data, j, prof, 1)

\* CookieManager.saveCookieToActiveProfile(cookie), importScripts variant
saveCookieToActiveProfile(data, prof, cookie) ==
  IF prof = NoProfile \/ ~isCookieInDomains(cookie, prof.domains) THEN data
  ELSE UpsertCookie(data, prof.id, cookie)

\* utils/cookie-manager.js (module variant): isDomainMatch has no wildcard branch
isDomainMatchES(cookieDomain, targetDomain) ==
  LET nc == NormalizeDomain(cookieDomain)
      nt == NormalizeDomain(targetDomain)
  IN  \/ nc = nt
      \/ EndsWith(nc, Dot \o nt)

\* module variant: if (!domains || domains.length === 0) return false
isCookieInDomainsES(cookie, domains) ==
  /\ Len(domains) # 0
  /\ \E i \in 1..Len(domains) : isDomainMatchES(cookie.domain, domains[i])

\* module variant: activeProfile.domains.find(domain => isDomainMatch(cookie.domain, domain))
MatchedDomainES(cookie, domains) ==
  domains[CHOOSE i \in 1..Len(domains) :
            /\ isDomainMatchES(cookie.domain, domains[i])
            /\ \A j \in 1..(i - 1) : ~isDomainMatchES(cookie.domain, domains[j])]

\* module variant of saveCookieToActiveProfile: the bucket is the matched pattern
saveCookieToActiveProfileES(data, prof, cookie) ==
  IF prof = NoProfile \/ ~isCookieInDomainsES(cookie, prof.domains) THEN data
  ELSE LET key     == MatchedDomainES(cookie, prof.domains)
           buckets == ProfileBuckets(data, prof.id)
           recs    == IF HasBucket(buckets, key)
                      THEN buckets[BucketIndex(buckets, key)].cookies ELSE <<>>
           at      == ExistingIndex(recs, cookie)
           recs2   == IF at > 0 THEN [recs EXCEPT ![at] = cookie]
                      ELSE Append(recs, cookie)
       IN  WithProfile(data, prof.id, SetBucket(buckets, key, recs2))

RECURSIVE SavePassesES(_, _, _, _)
\* module variant: for (const domain of activeProfile.domains) await saveCookies(id, domain)
SavePassesES(data, j, prof, idx) ==
  IF idx > Len(prof.domains) THEN data
  ELSE SavePassesES(saveCookies(data, j, prof.id, prof.domains[idx]), j, prof, idx + 1)

\* module variant of saveCurrentProfileCookies: returns when no domain is configured
saveCurrentProfileCookiesES(data, j, prof) ==
  IF prof = NoProfile \/ Len(prof.domains) = 0 THEN data
  ELSE SavePassesES(data, j, prof, 1)

\* Work, Personal and Plain, which watches the plain domain w
D_w == <<"w">>
StoreProfiles == Append(InitProfiles, [id |-> "P3", domains |-> <<D_w>>])

\* one operation: what ran, for which profile, on which argument, the live
\* cookies at the call, the store before and after
Logged(op, pid, arg, before, after) ==
  Append(log, [op |-> op, pid |-> pid, arg |-> arg, live |-> jar,
               before |-> before, after |-> after])

StoreInit ==
  /\ profiles = StoreProfiles
  /\ activeProfileId \in {Null, "P1", "P2", "P3"}
  /\ pluginEnabled = "absent"
  /\ cookieData = << >>
  /\ jar = [k \in KeyIds |-> 1]
  /\ isSwitchingProfile = FALSE
  /\ listening = FALSE
  /\ setupPending = FALSE
  /\ sw = [t \in Calls |-> IdleCall]
  /\ hd = [h \in Handlers |-> IdleHandler]
  /\ rejects = 0
  /\ AuxIdle

StoreFrame ==
  UNCHANGED <<profiles, activeProfileId, pluginEnabled, isSwitchingProfile, listening,
              setupPending, sw, hd, rejects, cfg, probe>>

\* a web page sets (v > 0) or deletes (v = 0) a cookie
PageChangesCookie(k, v) ==
  /\ Len(log) < MaxOps
  /\ jar[k] # v
  /\ jar' = [jar EXCEPT ![k] = v]
  /\ log' = Logged("page", Null, k, cookieData, cookieData)
  /\ UNCHANGED cookieData
  /\ StoreFrame

\* one run of an operation that maps the store `cookieData` to `after`
StoreOp(op, pid, arg, after) ==
  /\ Len(log) < MaxOps
  /\ cookieData' = after
  /\ log' = Logged(op, pid, arg, cookieData, after)
  /\ UNCHANGED jar
  /\ StoreFrame

StIncrementalSave(k) ==
  /\ jar[k] # 0
  /\ LET prof == getActiveProfile(profiles, activeProfileId)
     IN  StoreOp("upsert", prof.id, CookieRecord(k, jar[k]),
                 saveCookieToActiveProfile(cookieData, prof, CookieRecord(k, jar[k])))

StIncrementalSaveES(k) ==
  /\ jar[k] # 0
  /\ LET prof == getActiveProfile(profiles, activeProfileId)
     IN  StoreOp("upsertES", prof.id, CookieRecord(k, jar[k]),
                 saveCookieToActiveProfileES(cookieData, prof, CookieRecord(k, jar[k])))

StSaveCurrent ==
  LET prof == getActiveProfile(profiles, activeProfileId)
  IN  StoreOp("saveCurrent", prof.id, prof.domains,
              saveCurrentProfileCookies(cookieData, jar, prof))

StSaveCurrentES ==
  LET prof == getActiveProfile(profiles, activeProfileId)
  IN  StoreOp("saveCurrentES", prof.id, prof.domains,
              saveCurrentProfileCookiesES(cookieData, jar, prof))

StSaveCookies(pid, domain) ==
  StoreOp("saveCookies", pid, domain, saveCookies(cookieData, jar, pid, domain))

\* The store functions called one after another, each run to its end, between
\* changes of the live cookies.
StoreNext ==
  \/ \E k \in KeyIds, v \in 0..2 : PageChangesCookie(k, v)
  \/ \E k \in KeyIds : StIncrementalSave(k)
  \/ \E k \in KeyIds : StIncrementalSaveES(k)
  \/ StSaveCurrent
  \/ StSaveCurrentES
  \/ \E pid \in {"P1", "P3"}, domain \in {D_aw, D_w} : StSaveCookies(pid, domain)

StoreSpec == StoreInit /\ [][StoreNext]_vars

\* ------------------------------------------------- ConfigManager calls, step by step
\* createProfile, deleteProfile and switchProfile of config-manager: every storage
\* write is a step of its own, the reads before it are taken with the call's start.
CfgFrame ==
  UNCHANGED <<pluginEnabled, cookieData, jar, isSwitchingProfile, listening,
              setupPending, sw, hd, rejects, log, probe>>

\* calls start in the order of their numbers
CfgFree(n) ==
  /\ cfg[n].pc = "idle"
  /\ IF n = 1 THEN TRUE ELSE cfg[n - 1].pc # "idle"

\* the id createProfile makes up (time stamp and random suffix): never seen before
NewId(n) == IF n = 1 THEN "P3" ELSE IF n = 2 THEN "P4" ELSE "P5"

HasId(profs, id) == \E i \in 1..Len(profs) : profs[i].id = id

\* profiles.filter(p => p.id !== profileId)
WithoutId(profs, id) == SelectSeq(profs, LAMBDA p : p.id # id)

\* createProfile: getProfiles(), profiles.push(newProfile)
CreateProfile(n) ==
  /\ CfgFree(n)
  /\ cfg' = [cfg EXCEPT ![n] =
              [pc |-> "cWrite", op |-> "create", id |-> NewId(n),
               profs |-> Append(profiles, [id |-> NewId(n), domains |-> << >>])]]
  /\ UNCHANGED <<profiles, activeProfileId>>
  /\ CfgFrame

\* createProfile: setStorage({profiles})
CreateWrite(n) ==
  /\ cfg[n].pc = "cWrite"
  /\ profiles' = cfg[n].profs
  /\ cfg' = [cfg EXCEPT ![n].pc = "done"]
  /\ UNCHANGED activeProfileId
  /\ CfgFrame

\* deleteProfile: getProfiles(), filter
DeleteProfile(n, id) ==
  /\ CfgFree(n)
  /\ cfg' = [cfg EXCEPT ![n] =
              [pc |-> "dWrite", op |-> "delete", id |-> id,
               profs |-> WithoutId(profiles, id)]]
  /\ UNCHANGED <<profiles, activeProfileId>>
  /\ CfgFrame

\* deleteProfile: setStorage({profiles: filtered})
DeleteWrite(n) ==
  /\ cfg[n].pc = "dWrite"
  /\ profiles' = cfg[n].profs
  /\ cfg' = [cfg EXCEPT ![n].pc = "dActive"]
  /\ UNCHANGED activeProfileId
  /\ CfgFrame

\* deleteProfile: getActiveProfileId(), if (activeId === profileId)
DeleteReadActive(n) ==
  /\ cfg[n].pc = "dActive"
  /\ cfg' = [cfg EXCEPT ![n].pc =
              IF activeProfileId = cfg[n].id THEN "dClear" ELSE "done"]
  /\ UNCHANGED <<profiles, activeProfileId>>
  /\ CfgFrame

\* deleteProfile: setStorage({activeProfileId: null})
DeleteClear(n) ==
  /\ cfg[n].pc = "dClear"
  /\ activeProfileId' = Null
  /\ cfg' = [cfg EXCEPT ![n].pc = "done"]
  /\ UNCHANGED profiles
  /\ CfgFrame

\* switchProfile: getProfiles(), find, throw when the id is not listed
SwitchProfile(n, id) ==
  /\ CfgFree(n)
  /\ cfg' = [cfg EXCEPT ![n] =
              [pc |-> IF HasId(profiles, id) THEN "sWrite" ELSE "failed",
               op |-> "switch", id |-> id, profs |-> profiles]]
  /\ UNCHANGED <<profiles, activeProfileId>>
  /\ CfgFrame

\* switchProfile: setStorage({activeProfileId: profileId})
SwitchWrite(n) ==
  /\ cfg[n].pc = "sWrite"
  /\ activeProfileId' = cfg[n].id
  /\ cfg' = [cfg EXCEPT ![n].pc = "done"]
  /\ UNCHANGED profiles
  /\ CfgFrame

CfgNext ==
  \/ \E n \in CfgCalls : CreateProfile(n)
  \/ \E n \in CfgCalls : CreateWrite(n)
  \/ \E n \in CfgCalls, id \in {"P1", "P2"} : DeleteProfile(n, id)
  \/ \E n \in CfgCalls : DeleteWrite(n)
  \/ \E n \in CfgCalls : DeleteReadActive(n)
  \/ \E n \in CfgCalls : DeleteClear(n)
  \/ \E n \in CfgCalls, id \in {"P1", "P2"} : SwitchProfile(n, id)
  \/ \E n \in CfgCalls : SwitchWrite(n)

CfgSpec == Init /\ [][CfgNext]_vars

\* ------------------------------------------------------- the matchers, applied once
Alphabet == {"a", "w", ".", "*"}
Strings  == UNION {[1..n -> Alphabet] : n \in 0..MaxLen}
Patterns == {D_w, P_ww, D_aw, D_o}
PatternLists ==
  {<< >>} \cup {<<p>> : p \in Patterns} \cup {<<p, q>> : p \in Patterns, q \in Patterns}

\* one call of isDomainMatch(c, p) or of isCookieInDomains({domain: c}, list)
Probes ==
  [pc : {"in"}, fn : {"isDomainMatch"}, c : Strings, p : Strings, list : {<< >>},
   impl : {"none"}, out : {FALSE}]
  \cup
  [pc : {"in"}, fn : {"isCookieInDomains"}, c : Strings, p : {<< >>},
   list : PatternLists, impl : {"none"}, out : {FALSE}]

MatchInit ==
  /\ profiles = InitProfiles
  /\ activeProfileId = Null
  /\ pluginEnabled = "absent"
  /\ cookieData = << >>
  /\ jar = [k \in KeyIds |-> 1]
  /\ isSwitchingProfile = FALSE
  /\ listening = FALSE
  /\ setupPending = FALSE
  /\ sw = [t \in Calls |-> IdleCall]
  /\ hd = [h \in Handlers |-> IdleHandler]
  /\ rejects = 0
  /\ log = << >>
  /\ cfg = [n \in CfgCalls |-> IdleCfg]
  /\ probe \in Probes

\* the call returns `out` from the variant `impl`
Returned(impl, out) ==
  /\ probe' = [probe EXCEPT !.pc = "out", !.impl = impl, !.out = out]
  /\ UNCHANGED <<profiles, activeProfileId, pluginEnabled, cookieData, jar,
                 isSwitchingProfile, listening, setupPending, sw, hd, rejects, log, cfg>>

ProbeCookie == [name |-> "sid", value |-> 1, domain |-> probe.c, path |-> "/"]

\* cookie-manager-sw.js (importScripts variant)
ApplyIsDomainMatch ==
  /\ probe.pc = "in" /\ probe.fn = "isDomainMatch"
  /\ Returned("sw", isDomainMatch(probe.c, probe.p))

\* utils/cookie-manager.js (module variant)
ApplyIsDomainMatchES ==
  /\ probe.pc = "in" /\ probe.fn = "isDomainMatch"
  /\ Returned("es", isDomainMatchES(probe.c, probe.p))

ApplyIsCookieInDomains ==
  /\ probe.pc = "in" /\ probe.fn = "isCookieInDomains"
  /\ Returned("sw", isCookieInDomains(ProbeCookie, probe.list))

ApplyIsCookieInDomainsES ==
  /\ probe.pc = "in" /\ probe.fn = "isCookieInDomains"
  /\ Returned("es", isCookieInDomainsES(ProbeCookie, probe.list))

MatchNext ==
  \/ ApplyIsDomainMatch
  \/ ApplyIsDomainMatchES
  \/ ApplyIsCookieInDomains
  \/ ApplyIsCookieInDomainsES

MatchSpec == MatchInit /\ [][MatchNext]_vars

\* ---------------------------------------------------- the popup's other operations
\* They run as ConfigManager calls do; `profs` of a call holds what the call read
\* and carries to its next step (the profile list, the cookie data, or the cookies
\* still to remove).

\* updateProfile: getProfiles(), findIndex, throw when the id is not listed
UpdateProfile(n, id, domains) ==
  /\ CfgFree(n)
  /\ cfg' = [cfg EXCEPT ![n] =
              [pc |-> IF HasId(profiles, id) THEN "uWrite" ELSE "failed",
               op |-> "update", id |-> id,
               profs |-> [i \in 1..Len(profiles) |->
                            IF profiles[i].id = id
                            THEN [profiles[i] EXCEPT !.domains = domains]
                            ELSE profiles[i]]]]
  /\ UNCHANGED <<profiles, activeProfileId>>
  /\ CfgFrame

\* an update that also resets the active-profile pointer
UpdateWriteResetsPointer(n) ==
  /\ cfg[n].pc = "uWrite"
  /\ profiles' = cfg[n].profs
  /\ activeProfileId' = Null
  /\ cfg' = [cfg EXCEPT ![n].pc = "done"]
  /\ CfgFrame

\* updateProfile: setStorage({profiles})
UpdateWrite(n) ==
  /\ cfg[n].pc = "uWrite"
  /\ profiles' = cfg[n].profs
  /\ cfg' = [cfg EXCEPT ![n].pc = "done"]
  /\ UNCHANGED activeProfileId
  /\ CfgFrame

UserFrame ==
  UNCHANGED <<profiles, pluginEnabled, isSwitchingProfile, listening,
              setupPending, sw, hd, rejects, log, probe>>

\* clearProfileCookies: getCookieData(), if (cookieData[profileId]) delete
ClearProfileCookies(n, id) ==
  /\ CfgFree(n)
  /\ cfg' = [cfg EXCEPT ![n] =
              [pc |-> IF id \in DOMAIN cookieData THEN "kWrite" ELSE "done",
               op |-> "clearProfile", id |-> id,
               profs |-> [p \in (DOMAIN cookieData) \ {id} |-> cookieData[p]]]]
  /\ UNCHANGED <<activeProfileId, cookieData, jar>>
  /\ UserFrame

\* clearProfileCookies: saveCookieData(cookieData)
ClearProfileWrite(n) ==
  /\ cfg[n].pc = "kWrite"
  /\ cookieData' = cfg[n].profs
  /\ cfg' = [cfg EXCEPT ![n].pc = "done"]
  /\ UNCHANGED <<activeProfileId, jar>>
  /\ UserFrame

\* after one remove of handleCheckboxDeselect's clearAllCookies()
DeselectContinue(c, rest) ==
  [c EXCEPT !.pc = IF rest = << >> THEN "xWrite" ELSE "xRemove", !.profs = rest]

\* handleCheckboxDeselect: clearAllCookies() lists the cookies (nothing excluded)
Deselect(n) ==
  /\ CfgFree(n)
  /\ cfg' = [cfg EXCEPT ![n] =
              DeselectContinue([pc |-> "xRemove", op |-> "deselect", id |-> Null,
                                profs |-> << >>], GetAllCookies(jar))]
  /\ UNCHANGED <<activeProfileId, cookieData, jar>>
  /\ UserFrame

\* clearAllCookies: await chrome.cookies.remove({url, name}) for the next cookie
DeselectRemove(n) ==
  /\ cfg[n].pc = "xRemove"
  /\ LET c == Head(cfg[n].profs)
     IN  /\ jar' = RemoveCookie(jar, CookieUrl(c), c.name)
         /\ cfg' = [cfg EXCEPT ![n] = DeselectContinue(cfg[n], Tail(cfg[n].profs))]
  /\ UNCHANGED <<activeProfileId, cookieData>>
  /\ UserFrame

\* handleCheckboxDeselect: setStorage({ activeProfileId: null })
DeselectWrite(n) ==
  /\ cfg[n].pc = "xWrite"
  /\ activeProfileId' = Null
  /\ cfg' = [cfg EXCEPT ![n].pc = "done"]
  /\ UNCHANGED <<cookieData, jar>>
  /\ UserFrame

\* the popup is opened on a store that holds a snapshot of Work, or none
UserInit ==
  /\ profiles = InitProfiles
  /\ activeProfileId \in {Null, "P1"}
  /\ pluginEnabled \in {"absent", "false"}
  /\ jar = [k \in KeyIds |-> 1]
  /\ cookieData \in {<< >>, saveCurrentProfileCookies(<< >>, jar, InitProfiles[1])}
  /\ isSwitchingProfile = FALSE
  /\ listening = FALSE
  /\ setupPending = FALSE
  /\ sw = [t \in Calls |-> IdleCall]
  /\ hd = [h \in Handlers |-> IdleHandler]
  /\ rejects = 0
  /\ AuxIdle

UserNext ==
  \/ CfgNext
  \/ \E n \in CfgCalls, id \in {"P1", "P2"}, domains \in {<< >>, <<D_w>>} :
       UpdateProfile(n, id, domains)
  \/ \E n \in CfgCalls : UpdateWrite(n)
  \/ \E n \in CfgCalls, id \in {"P1", "P2"} : ClearProfileCookies(n, id)
  \/ \E n \in CfgCalls : ClearProfileWrite(n)
  \/ \E n \in CfgCalls : Deselect(n)
  \/ \E n \in CfgCalls : DeselectRemove(n)
  \/ \E n \in CfgCalls : DeselectWrite(n)
  \/ TogglePlugin

UserSpec == UserInit /\ [][UserNext]_vars

\* Cookie changes that follow each other closely: the handlers of several
\* notifications are under way together, no switch runs.
RaceNext ==
  \/ \E h \in Handlers, k \in KeyIds, v \in Values : CookieSet(h, k, v)
  \/ \E h \in Handlers, k \in KeyIds : CookieRemoved(h, k)
  \/ \E h \in Handlers : HdStep(h)

RaceSpec == Init /\ [][RaceNext]_vars

\* The event filter and the plugin switch: cookie changes, their handlers and the
\* user toggling the plugin; no profile switch.
ToggleNext ==
  \/ \E h \in EventHandlers, k \in KeyIds, v \in Values : CookieSet(h, k, v)
  \/ \E h \in EventHandlers, k \in KeyIds : CookieRemoved(h, k)
  \/ \E h \in EventHandlers : HdStep(h)
  \/ \E h \in EventHandlers : HdReject(h)
  \/ TogglePlugin
  \/ SetupCookieInterceptor

ToggleSpec == Init /\ [][ToggleNext]_vars

\* ==================================================================== properties
Running(t) == sw[t].pc \notin {"idle", "done"}

In(e, trace) == \E i \in 1..Len(trace) : trace[i] = e

Rank(e) ==
  CASE e = "saveBegin"  -> 1
    [] e = "saveEnd"    -> 2
    [] e = "pointer"    -> 3
    [] e = "clearBegin" -> 4
    [] e = "rm"         -> 5
    [] e = "clearEnd"   -> 6
    [] e = "loadBegin"  -> 7
    [] e = "set"        -> 8
    [] e = "loadEnd"    -> 9

\* a record is live: the jar holds the cookie of its name, domain and path with its value
Live(j, rec) == j[KeyOf(rec)] = rec.value

Matches(cookie, patterns) ==
  \E i \in 1..Len(patterns) : isDomainMatch(cookie.domain, patterns[i])

\* C1: of two switchProfile calls that overlap, only the one that started first runs
\* the save / pointer / clear / load sequence; a call that starts while another is
\* running returns in the same step as "ignored", changes neither the active-profile
\* pointer, the live cookies nor any snapshot, and never acts afterwards.
C1_SwitchMutualExclusion ==
  /\ [](Cardinality({t \in Calls : Running(t)}) <= 1)
  /\ [](\A t \in Calls : sw[t].result = "ignored" => sw[t].pc = "done" /\ sw[t].trace = <<>>)
  /\ [][\A t \in Calls :
          /\ (sw[t].pc = "idle" /\ sw'[t].pc # "idle" /\ \E u \in Calls : Running(u))
               => /\ sw'[t].result = "ignored"
                  /\ sw'[t].pc = "done"
                  /\ activeProfileId' = activeProfileId
                  /\ jar' = jar
                  /\ cookieData' = cookieData
                  /\ \A u \in Calls : Running(u) => sw'[u] = sw[u]
          /\ sw[t].result = "ignored" => sw'[t].pc = "done" /\ sw'[t].trace = <<>>]_vars

\* C1 witness: a call was ignored while the other is in the middle of its sequence
C1_Witness ==
  \E t, u \in Calls :
    /\ sw[t].result = "ignored"
    /\ Running(u)
    /\ In("pointer", sw[u].trace)

\* C2: whenever the flag is set it is cleared again, on success and on every rejected
\* step alike (every collaborator call returns or rejects); a call that fails hands
\* its error to the caller with the flag already false.
C2_SwitchReturnsToIdle ==
  /\ isSwitchingProfile ~> ~isSwitchingProfile
  /\ [](\A t \in Calls : sw[t].response = "fail" => ~sw[t].flagAtReturn)
  /\ [][\A t \in Calls :
          (Running(t) /\ sw'[t].pc = "done") => ~isSwitchingProfile']_vars

\* C2 witness: a step of a switch rejected, the caller has the error, the flag is false
C2_Witness ==
  \E t \in Calls :
    /\ sw[t].result = "error"
    /\ sw[t].response = "fail"
    /\ ~isSwitchingProfile

\* C3: in a call with clearCookies = true the steps run in the order save, pointer,
\* clear, restore, each finished before the next begins: the events of the call are
\* strictly ordered, a cookie is removed only with the save finished and the pointer
\* set, and a cookie is restored only with the clearing finished.
C3_StepOrder ==
  /\ [](\A t \in Calls : sw[t].clear =>
          LET tr == sw[t].trace
          IN  /\ \A i \in 1..Len(tr) : \A j \in 1..Len(tr) :
                   i < j => Rank(tr[i]) < Rank(tr[j])
              /\ (In("rm", tr) \/ In("clearBegin", tr)) =>
                   /\ In("pointer", tr)
                   /\ In("saveBegin", tr) => In("saveEnd", tr)
              /\ (In("set", tr) \/ In("loadBegin", tr)) =>
                   /\ In("clearBegin", tr)
                   /\ In("clearEnd", tr)
              /\ (sw[t].result = "ok") =>
                   /\ In("pointer", tr) /\ In("clearEnd", tr) /\ In("loadEnd", tr))
  /\ [][\A t \in Calls : sw[t].clear =>
          /\ (sw'[t].removed # sw[t].removed) =>
               /\ In("pointer", sw[t].trace)
               /\ In("saveBegin", sw[t].trace) => In("saveEnd", sw[t].trace)
               /\ ~In("loadBegin", sw[t].trace)
          /\ (In("set", sw'[t].trace) /\ sw'[t].trace # sw[t].trace) =>
               In("clearEnd", sw[t].trace)]_vars

\* C3 witness: a clearing switch from an active profile has saved, removed a cookie
\* and restored a cookie
C3_Witness ==
  \E t \in Calls :
    /\ sw[t].clear
    /\ sw[t].result = "ok"
    /\ In("saveEnd", sw[t].trace)
    /\ In("rm", sw[t].trace)
    /\ In("set", sw[t].trace)

\* C4: a cookie change delivered to handleCookieChange while the flag is set never
\* writes the snapshot store: that handler ends at once and no step of it changes
\* cookieData.
C4_NoWriteWhileSwitching ==
  /\ [](\A h \in Handlers :
          (hd[h].heard /\ hd[h].atSwitching) => (hd[h].pc = "done" /\ ~hd[h].wrote))
  /\ [][\A h \in Handlers :
          (hd'[h].heard /\ hd'[h].atSwitching /\ hd'[h].pc # hd[h].pc)
             => cookieData' = cookieData]_vars

\* C4 witness: with the plugin enabled and a profile active, a cookie of the profile's
\* domains was set during a switch and the handler dropped it
C4_Witness ==
  \E h \in Handlers :
    /\ hd[h].heard
    /\ hd[h].atSwitching
    /\ hd[h].atEnabled
    /\ hd[h].atActive # Null
    /\ ~hd[h].removed
    /\ hd[h].pc = "done"

\* C5: a switch to an id that no profile has fails as "not found" at the pointer
\* update, after the save of the outgoing profile when there is one; no step of the
\* call changes the pointer or the live cookies, nothing is removed or restored.
C5_MissingTargetFails ==
  /\ [](\A t \in Calls : sw[t].target = Missing =>
          /\ sw[t].result \in {"none", "ignored", "error", "notfound"}
          /\ ~In("pointer", sw[t].trace)
          /\ ~In("clearBegin", sw[t].trace)
          /\ ~In("loadBegin", sw[t].trace)
          /\ sw[t].removed = {}
          /\ sw[t].result = "notfound" =>
               /\ sw[t].response = "fail"
               /\ sw[t].trace \in {<< >>, <<"saveBegin", "saveEnd">>})
  /\ [][\A t \in Calls :
          (sw'[t].target = Missing /\ sw'[t] # sw[t])
             => (activeProfileId' = activeProfileId /\ jar' = jar)]_vars

\* C5 witness: the switch to the missing id failed after saving the outgoing profile
C5_Witness ==
  \E t \in Calls :
    /\ sw[t].target = Missing
    /\ sw[t].result = "notfound"
    /\ sw[t].trace = <<"saveBegin", "saveEnd">>

\* C6 (as stated): after a switch that completed without error, with no failed set
\* call and no other change to the jar since the restore began, every record of the
\* target's snapshot that the restore read is live with its value.
C6_EveryRecordRestored ==
  \A t \in Calls :
    (sw[t].result = "ok" /\ ~sw[t].setFailed /\ sw[t].quiet)
       => \A i \in 1..Len(sw[t].loaded) : Live(jar, sw[t].loaded[i])

\* C7: clearAllCookies never removes, nor tries to remove, a cookie whose domain
\* matches an exclude pattern; of the cookies it enumerated it removes every other
\* one whose remove call does not reject, and a removed cookie has left the jar.
C7_ClearSparesExcluded ==
  /\ [](\A t \in Calls :
          /\ \A i \in 1..Len(sw[t].listed) :
               LET c == sw[t].listed[i]
               IN  /\ Matches(c, sw[t].exclude)
                      => KeyOf(c) \notin (sw[t].removed \cup sw[t].rmFailed)
                   /\ (In("clearEnd", sw[t].trace) /\ ~Matches(c, sw[t].exclude))
                      => KeyOf(c) \in (sw[t].removed \cup sw[t].rmFailed)
          /\ \A k \in sw[t].removed \cup sw[t].rmFailed :
               \E i \in 1..Len(sw[t].listed) : KeyOf(sw[t].listed[i]) = k)
  /\ [][\A t \in Calls : \A k \in KeyIds :
          (k \in sw'[t].removed /\ k \notin sw[t].removed) => jar'[k] = 0]_vars

\* C7 (as stated): every enumerated cookie that matches no exclude pattern is removed
C7_ClearRemovesEveryOther ==
  \A t \in Calls :
    In("clearEnd", sw[t].trace) =>
      \A i \in 1..Len(sw[t].listed) :
        ~Matches(sw[t].listed[i], sw[t].exclude) => KeyOf(sw[t].listed[i]) \in sw[t].removed

\* C7 witness: a clear finished that spared a matching cookie and removed another
C7_Witness ==
  \E t \in Calls :
    /\ In("clearEnd", sw[t].trace)
    /\ \E i \in 1..Len(sw[t].listed) : Matches(sw[t].listed[i], sw[t].exclude)
    /\ sw[t].removed # {}

\* C8 (as stated): in a switch with clearCookies = true every cookie that was live
\* when the clear step started has been removed when the clear step ends, whatever
\* the domains of the new profile.
C8_ClearRemovesAll ==
  \A t \in Calls :
    (sw[t].clear /\ In("clearEnd", sw[t].trace) /\ sw[t].rmFailed = {})
       => \A i \in 1..Len(sw[t].listed) : KeyOf(sw[t].listed[i]) \in sw[t].removed

\* C9 (as stated, finite form): a non-removal change of a cookie of the active
\* profile P's domains was delivered with the plugin enabled and no switch in
\* progress, and no storage call of its handler rejected; once the handler and every
\* switch have ended, P's snapshot has held the cookie's record.
C9_ChangeRecorded ==
  \A h \in Handlers :
    ( /\ hd[h].pc = "done"
      /\ \A t \in Calls : ~Running(t)
      /\ hd[h].heard
      /\ ~hd[h].atSwitching
      /\ hd[h].atEnabled
      /\ hd[h].atActive # Null
      /\ ~hd[h].removed
      /\ isCookieInDomains(hd[h].cookie,
                           getActiveProfile(profiles, hd[h].atActive).domains)
      /\ ~hd[h].failed )
    => hd[h].held

\* C10: a notification with removed = true never writes the snapshot store: its
\* handler never reaches the write, and no step of it changes cookieData, so the
\* record of the deleted cookie stays where it is.
C10_RemovalNotPropagated ==
  /\ [](\A h \in Handlers : hd[h].removed => (~hd[h].wrote /\ hd[h].pc # "hWrite"))
  /\ [][\A h \in Handlers :
          (hd'[h].removed /\ hd'[h].pc # hd[h].pc) => cookieData' = cookieData]_vars

\* C10 witness: the handler of a removal ended, delivered with the plugin enabled, a
\* profile active and no switch running, and the snapshot still holds the record
C10_Witness ==
  \E h \in Handlers :
    /\ hd[h].removed
    /\ hd[h].heard
    /\ ~hd[h].atSwitching
    /\ hd[h].atEnabled
    /\ hd[h].atActive # Null
    /\ hd[h].pc = "done"
    /\ jar[KeyOf(hd[h].cookie)] = 0
    /\ Holds(cookieData, hd[h].atActive, hd[h].cookie)

\* C11: a handler that reads the stored flag as false ends without writing the
\* snapshot store; with the flag absent or true (and a profile active, a cookie of its
\* domains, not a removal) the same handler goes on to write: only a stored false
\* disables.
C11_DisabledHandlerIgnores ==
  [][\A h \in Handlers :
       (hd[h].pc = "hRead" /\ hd'[h].pc # "hRead") =>
          /\ (pluginEnabled = "false") =>
                (hd'[h].pc = "done" /\ ~hd'[h].wrote /\ cookieData' = cookieData)
          /\ ( /\ pluginEnabled \in {"absent", "true"}
               /\ ~hd'[h].failed
               /\ ~hd[h].removed
               /\ getActiveProfile(profiles, activeProfileId) # NoProfile
               /\ isCookieInDomains(hd[h].cookie,
                                    getActiveProfile(profiles, activeProfileId).domains) )
             => hd'[h].pc = "hWrite"]_vars

\* C11 witness: a handler delivered while the plugin was enabled found the flag false
\* when it read it, and ended without a write
C11_Witness ==
  \E h \in Handlers :
    /\ hd[h].heard
    /\ hd[h].atEnabled
    /\ ~hd[h].atSwitching
    /\ ~hd[h].removed
    /\ ~hd[h].failed
    /\ hd[h].atActive # Null
    /\ isCookieInDomains(hd[h].cookie,
                         getActiveProfile(profiles, hd[h].atActive).domains)
    /\ hd[h].pc = "done"
    /\ ~hd[h].wrote
    /\ pluginEnabled = "false"

\* C11 (as stated): no step changes the snapshot store while the stored flag is false
C11_NoWriteWhileDisabled ==
  [][(pluginEnabled = "false") => (cookieData' = cookieData)]_vars


\* ------------------------------------------------ properties of the store functions
\* the records of bucket `key` of profile pid
BucketRecords(data, pid, key) ==
  LET buckets == ProfileBuckets(data, pid)
  IN  IF HasBucket(buckets, key) THEN buckets[BucketIndex(buckets, key)].cookies ELSE <<>>

\* how many records of recs carry the cookie's (name, path)
SameKeyCount(recs, cookie) ==
  Cardinality({n \in 1..Len(recs) :
                 recs[n].name = cookie.name /\ recs[n].path = cookie.path})

\* a logged incremental save that passed the filter of its variant
Accepted(e) ==
  /\ e.op \in {"upsert", "upsertES"}
  /\ e.pid # Null
  /\ LET prof == getActiveProfile(profiles, e.pid)
     IN  IF e.op = "upsert" THEN isCookieInDomains(e.arg, prof.domains)
         ELSE isCookieInDomainsES(e.arg, prof.domains)

\* the bucket an accepted incremental save writes
UpsertKey(e) ==
  IF e.op = "upsert" THEN NormalizeDomain(e.arg.domain)
  ELSE MatchedDomainES(e.arg, getActiveProfile(profiles, e.pid).domains)

\* C12: when the incremental save runs twice in a row for the active profile with
\* a cookie of the same name, domain and path, its bucket afterwards holds exactly
\* one record of that (name, path), and that record is the cookie of the second
\* call (same value: nothing added; other value: replaced, not appended).
C12_UpsertLeavesOneRecord ==
  \A i \in 1..(Len(log) - 1) :
    LET a == log[i]
        b == log[i + 1]
    IN  (/\ a.op = b.op
         /\ Accepted(a) /\ Accepted(b)
         /\ a.pid = b.pid
         /\ a.arg.name = b.arg.name /\ a.arg.path = b.arg.path
         /\ a.arg.domain = b.arg.domain)
        => LET recs == BucketRecords(b.after, b.pid, UpsertKey(b))
           IN  /\ SameKeyCount(recs, b.arg) = 1
               /\ \E n \in 1..Len(recs) : recs[n] = b.arg

\* C13: whatever switches, full saves (wildcard passes included, repeated) and
\* incremental saves have run, no bucket of any profile holds two records with the
\* same (name, path).
C13_NoDuplicateRecords ==
  \A pid \in DOMAIN cookieData :
    \A b \in 1..Len(cookieData[pid]) :
      LET recs == cookieData[pid][b].cookies
      IN  \A m, n \in 1..Len(recs) :
            (recs[m].name = recs[n].name /\ recs[m].path = recs[n].path) => m = n

\* ------------------------------------------------ properties of the profile list
CfgSettled == \A n \in CfgCalls : cfg[n].pc \in {"idle", "done", "failed"}

\* C14: once the createProfile, deleteProfile and switchProfile calls under way
\* have finished, in whatever order their steps interleaved, the active-profile
\* pointer is unset or is the id of a profile in the profile list; in particular
\* a deleted profile is never left as the active one.
C14_PointerNamesProfile ==
  CfgSettled => (activeProfileId = Null \/ HasId(profiles, activeProfileId))

\* C15: every record stored in a bucket has a domain whose normalized form (one
\* leading dot stripped) is the bucket's key, whichever save wrote the bucket.
C15_RecordDomainIsBucketKey ==
  \A pid \in DOMAIN cookieData :
    \A b \in 1..Len(cookieData[pid]) :
      \A n \in 1..Len(cookieData[pid][b].cookies) :
        NormalizeDomain(cookieData[pid][b].cookies[n].domain) = cookieData[pid][b].key

\* the keys of a profile's buckets
BucketKeys(data, pid) ==
  {ProfileBuckets(data, pid)[b].key : b \in 1..Len(ProfileBuckets(data, pid))}

\* C16: when saveCookies(p, d) has run, bucket d of profile p holds exactly the
\* records of the cookies listed for the domain filter d at the call (whatever it
\* held before is gone), every other bucket of p and every other profile's
\* snapshot is as it was, and running the same call again with no change of the
\* live cookies in between leaves the store as it is.
C16_SaveCookiesReplaces ==
  \A i \in 1..Len(log) :
    LET e == log[i]
    IN  e.op = "saveCookies" =>
          /\ BucketRecords(e.after, e.pid, e.arg) = GetCookiesOfDomain(e.live, e.arg)
          /\ BucketKeys(e.after, e.pid) = BucketKeys(e.before, e.pid) \cup {e.arg}
          /\ \A k \in BucketKeys(e.before, e.pid) \ {e.arg} :
               BucketRecords(e.after, e.pid, k) = BucketRecords(e.before, e.pid, k)
          /\ DOMAIN e.after = (DOMAIN e.before) \cup {e.pid}
          /\ \A q \in (DOMAIN e.before) \ {e.pid} : e.after[q] = e.before[q]
          /\ (/\ i > 1
              /\ log[i - 1].op = "saveCookies"
              /\ log[i - 1].pid = e.pid
              /\ log[i - 1].arg = e.arg) => e.after = e.before

\* a per-domain save dropped a record whose cookie was gone, and was run again
C16_Witness ==
  \E i \in 2..Len(log) :
    /\ log[i].op = "saveCookies" /\ log[i - 1].op = "saveCookies"
    /\ log[i].pid = log[i - 1].pid /\ log[i].arg = log[i - 1].arg
    /\ \E n \in 1..Len(BucketRecords(log[i - 1].before, log[i].pid, log[i].arg)) :
         \A m \in 1..Len(BucketRecords(log[i].after, log[i].pid, log[i].arg)) :
           BucketRecords(log[i].after, log[i].pid, log[i].arg)[m]
             # BucketRecords(log[i - 1].before, log[i].pid, log[i].arg)[n]

\* ------------------------------------------------------ properties of the matchers
\* s without one leading '.'
Stripped(s) == IF Len(s) > 0 /\ s[1] = "." THEN Tail(s) ELSE s

\* s ends with '.' followed by t
IsSubdomainOf(s, t) ==
  /\ Len(s) >= Len(t) + 1
  /\ s[Len(s) - Len(t)] = "."
  /\ \A i \in 1..Len(t) : s[Len(s) - Len(t) + i] = t[i]

\* the stated matching rule on stripped c and p
StatedMatch(c, p) ==
  \/ c = p
  \/ IsSubdomainOf(c, p)
  \/ /\ Len(p) >= 2 /\ p[1] = "*" /\ p[2] = "."
     /\ LET rest == Tail(Tail(p))
        IN  c = rest \/ IsSubdomainOf(c, rest)

\* C17: in either variant, isDomainMatch(c, p) returns true exactly when, with
\* one leading '.' stripped from each, c equals p, or c ends with '.' + p, or p
\* starts with '*.' and c equals the rest of p or ends with '.' + the rest of p.
C17_MatcherAsSpecified ==
  (probe.pc = "out" /\ probe.fn = "isDomainMatch")
    => (probe.out <=> StatedMatch(Stripped(probe.c), Stripped(probe.p)))

\* C18: in either variant, isCookieInDomains returns true for every cookie when
\* the pattern list is empty, and otherwise exactly when some pattern of the list
\* matches the cookie's domain under the variant's isDomainMatch.
C18_EmptyListMatchesAll ==
  (probe.pc = "out" /\ probe.fn = "isCookieInDomains")
    => (probe.out <=>
          \/ Len(probe.list) = 0
          \/ \E i \in 1..Len(probe.list) :
               IF probe.impl = "sw" THEN isDomainMatch(probe.c, probe.list[i])
               ELSE isDomainMatchES(probe.c, probe.list[i]))

\* the store holds, for profile pid, exactly the live cookies of j, each in the
\* bucket of its normalized domain, and no empty bucket
SnapshotIsLive(data, pid, j) ==
  LET buckets == ProfileBuckets(data, pid)
  IN  /\ \A k \in KeyIds : j[k] # 0 => Holds(data, pid, CookieRecord(k, j[k]))
      /\ Len(AllRecords(buckets)) = Cardinality({k \in KeyIds : j[k] # 0})
      /\ \A b \in 1..Len(buckets) :
           /\ Len(buckets[b].cookies) > 0
           /\ \A n \in 1..Len(buckets[b].cookies) :
                LET r == buckets[b].cookies[n]
                IN  /\ NormalizeDomain(r.domain) = buckets[b].key
                    /\ j[KeyOf(r)] = r.value

\* C19: in either variant, saveCurrentProfileCookies run for an active profile
\* with no configured domains leaves that profile's snapshot holding exactly the
\* live cookies, bucketed by normalized domain, and no other profile's snapshot
\* changed; run with no active profile it leaves the store as it was.
C19_SaveEverything ==
  \A i \in 1..Len(log) :
    LET e == log[i]
    IN  e.op \in {"saveCurrent", "saveCurrentES"} =>
          /\ e.pid = Null => e.after = e.before
          /\ (e.pid # Null /\ e.arg = << >>) =>
               /\ SnapshotIsLive(e.after, e.pid, e.live)
               /\ \A q \in (DOMAIN e.before) \ {e.pid} :
                    q \in DOMAIN e.after /\ e.after[q] = e.before[q]

\* ------------------------------------------------------- the switch as a whole
\* the first switch, Work to Personal with clearing, has answered success; it
\* began by saving an active profile, no removal failed, and nothing else ran
WorkToPersonalDone ==
  /\ sw[1].pc = "done" /\ sw[1].result = "ok"
  /\ sw[1].target = "P2" /\ sw[1].clear
  /\ \E n \in 1..Len(sw[1].trace) : sw[1].trace[n] = "saveBegin"
  /\ sw[1].rmFailed = {}
  /\ \A t \in Calls \ {1} : sw[t].pc = "idle"
  /\ \A h \in Handlers : hd[h].pc = "idle"

\* C20: with Work (a '*.' pattern among its domains) active and live cookies
\* present, a successful switch to Personal (no domains, empty snapshot) in which
\* no removal failed ends with Work's snapshot holding the cookies that matched
\* the pattern at the switch and with no cookie left in the browser.
C20_WorkSavedBrowserEmpty ==
  WorkToPersonalDone =>
    /\ \A k \in KeyIds : jar[k] = 0
    /\ \A k \in KeyIds :
         isDomainMatch(CookieKeys[k].domain, P_ww)
           => Holds(cookieData, "P1", CookieRecord(k, 1))

\* ------------------------------------------------------ answers and rejections
\* C21: a switchProfile message that arrives while another switch is running is
\* answered with success false, so its sender learns the switch was not performed.
C21_IgnoredSwitchAnswersFailure ==
  \A t \in Calls :
    (sw[t].pc = "done" /\ sw[t].result = "ignored") => sw[t].response = "fail"

\* C22: when the store or the cookie API rejects while a switch is saving the
\* outgoing profile's cookies, in a plain or in a wildcard pass, the switch
\* settles at that step with the error: it does not go on to change the
\* active-profile pointer or to remove cookies.
C22_SaveRejectionStopsSwitch ==
  [][\A t \in Calls :
       (/\ rejects' = rejects + 1
        /\ sw[t].pc \in {"saveEntry", "saveRead", "saveWrite"}
        /\ sw'[t] # sw[t])
         => (/\ sw'[t].pc = "done" /\ sw'[t].result = "error"
             /\ activeProfileId' = activeProfileId
             /\ jar' = jar)]_vars

\* ------------------------------------------------------ who writes the pointer
\* the call n took a step
Stepped(n) == cfg'[n].pc # cfg[n].pc

\* C23: the stored active-profile pointer changes only in a step of a profile
\* switch (to the switch's target), of a profile deletion (to unset), or of the
\* popup's uncheck of the active profile (to unset); creating or updating a
\* profile, toggling the plugin and clearing a profile's cookies leave it alone.
C23_PointerWriters ==
  [][activeProfileId' # activeProfileId =>
       \E n \in CfgCalls :
         /\ Stepped(n)
         /\ \/ cfg[n].op = "switch" /\ activeProfileId' = cfg[n].id
            \/ cfg[n].op = "delete" /\ activeProfileId' = Null
            \/ cfg[n].op = "deselect" /\ activeProfileId' = Null]_vars

\* a switch made Work active and the uncheck then left the pointer unset
C23_Witness ==
  /\ cfg[1].op = "switch" /\ cfg[1].id = "P1" /\ cfg[1].pc = "done"
  /\ cfg[2].op = "deselect" /\ cfg[2].pc = "done"
  /\ activeProfileId = Null

\* the pointer changes only in a step of a switch or of a deletion
C23_OnlySwitchOrDelete ==
  [][activeProfileId' # activeProfileId =>
       \E n \in CfgCalls :
         /\ Stepped(n)
         /\ cfg[n].op \in {"switch", "delete"}]_vars

\* C24: in loadCookies a set that fails is skipped: the step that handles a
\* record, whether its set succeeded or was rejected, goes on to the next record
\* of the snapshot, or ends the restoration after the last one, and never
\* settles the switch with an error; the switch then answers success.
C24_SetFailureSkipped ==
  [][\A t \in Calls :
       (sw[t].pc = "loadStep" /\ sw'[t].cookies # sw[t].cookies) =>
         /\ sw'[t].cookies = Tail(sw[t].cookies)
         /\ sw'[t].pc = (IF Tail(sw[t].cookies) = << >> THEN "finish" ELSE "loadStep")
         /\ sw'[t].result = "none"
         /\ sw'[t].loaded = sw[t].loaded]_vars

\* a switch restored a snapshot of two records or more, one set was rejected,
\* and the switch answered success
C24_Witness ==
  \E t \in Calls :
    /\ sw[t].pc = "done" /\ sw[t].result = "ok" /\ sw[t].response = "ok"
    /\ sw[t].setFailed
    /\ Len(sw[t].loaded) >= 2

\* C25: in either variant, isDomainMatch(c, p) returns false when exactly one of
\* c and p is the empty string, and true when both are.
C25_EmptyInputs ==
  (probe.pc = "out" /\ probe.fn = "isDomainMatch") =>
    /\ ((probe.c = << >>) # (probe.p = << >>)) => ~probe.out
    /\ (probe.c = << >> /\ probe.p = << >>) => probe.out

\* C26: when no popup or ConfigManager call is under way, every profile id that
\* keys the snapshot store is the id of a profile in the profile list; a
\* finished deleteProfile(p) has left no snapshot of p behind.
C26_NoOrphanSnapshot ==
  CfgSettled => \A pid \in DOMAIN cookieData : HasId(profiles, pid)

\* ------------------------------------------------------------ handlers together
\* C27: when the handlers of two notifications for two different cookies of the
\* active profile have both written, in whatever order their reads and writes
\* interleaved, the snapshot of that profile holds both cookies.
C27_BothChangesRecorded ==
  \A g, h \in Handlers :
    (/\ g # h
     /\ hd[g].pc = "done" /\ hd[g].wrote
     /\ hd[h].pc = "done" /\ hd[h].wrote
     /\ KeyOf(hd[g].cookie) # KeyOf(hd[h].cookie))
      => /\ Holds(cookieData, hd[g].atActive, hd[g].cookie)
         /\ Holds(cookieData, hd[h].atActive, hd[h].cookie)

\* C28: the write of a cookie-change handler records the cookie in the snapshot
\* of the profile that was active when the notification was delivered, and adds
\* it to the store as the store is at the write: the cookie does not land in the
\* snapshot of a profile a switch has made active since, and nothing a switch
\* has saved since the handler's check is undone.
C28_WriteGoesToProfileAtDelivery ==
  [][\A h \in Handlers :
       (hd[h].pc = "hWrite" /\ hd'[h].pc = "done" /\ hd'[h].wrote) =>
         /\ hd[h].prof.id = hd[h].atActive
         /\ cookieData' = UpsertCookie(cookieData, hd[h].atActive, hd[h].cookie)]_vars

\* ------------------------------------------------------------ after the switch
\* the call t is a switch with clearing that answered success with no failed
\* removal, and no later call has acted since
LastCleanSwitch(t) ==
  /\ sw[t].pc = "done" /\ sw[t].result = "ok"
  /\ sw[t].clear
  /\ sw[t].rmFailed = {}
  /\ \A u \in Calls : u > t => (sw[u].pc = "idle" \/ sw[u].result = "ignored")

\* the cookie of key k matches a configured domain of the switch's target, or
\* is one of the records the switch restored
KeptOrRestored(t, k) ==
  \/ Matches(CookieKeys[k], getActiveProfile(profiles, sw[t].target).domains)
  \/ \E i \in 1..Len(sw[t].loaded) : KeyOf(sw[t].loaded[i]) = k

C30_SwitchWritesOnlyOutgoing ==
  /\ [][profiles' = profiles]_vars
  /\ [][(cookieData' # cookieData /\ \A h \in Handlers : hd'[h].pc = hd[h].pc) =>
          \E t \in Calls :
            /\ sw[t].pc = "saveWrite"
            /\ sw'[t].pc # "saveWrite" \/ sw'[t].idx # sw[t].idx
            /\ \A p \in ((DOMAIN cookieData) \cup (DOMAIN cookieData')) \ {sw[t].prof.id} :
                 /\ p \in DOMAIN cookieData /\ p \in DOMAIN cookieData'
                 /\ cookieData'[p] = cookieData[p]]_vars

====
